---- MODULE Spec2Model ----
(***************************************************************************)
(* The ledger engine of sailors-superstitions: handle (src/src/lib.rs)     *)
(* applies one transaction to a client store and a transaction store.      *)
(* The ingestion loop of main (src/src/main.rs) feeds it one parsed row    *)
(* at a time and ignores the result.                                       *)
(***************************************************************************)
EXTENDS Integers, FiniteSets, Sequences, TLC

\* ---------------------------------------------------------------- bounds
MaxClient == 2
MaxTx == 2
MaxAmount == 1
MaxDebit == 1

Clients == 1..MaxClient
TxIds == 1..MaxTx
\* Decimal parses signed values, so a row may carry a negative or zero amount.
Amounts == (0 - MaxDebit)..MaxAmount

\* ------------------------------------------------------------ data model
\* enum TransactionStatus
TransactionStatus == {"Started", "Disputed", "Resolved", "Chargeback"}

\* enum TransactionKind<T>: only Deposit and Withdrawal carry an amount
AmountKinds == {"Deposit", "Withdrawal"}
RefKinds == {"Dispute", "Resolve", "Chargeback"}
TransactionKind ==
    {[tag |-> k, amount |-> a] : k \in AmountKinds, a \in Amounts}
        \cup {[tag |-> k] : k \in RefKinds}

\* Transaction::new: every transaction built from a row starts in Started
Transaction_new(kind, client, tx) ==
    [kind |-> kind, client |-> client, tx |-> tx, status |-> "Started"]

\* The transactions the parser can hand to handle
Transactions ==
    {Transaction_new(k, c, t) : k \in TransactionKind, c \in Clients, t \in TxIds}

\* impl Default for Client
Client_default == [available |-> 0, held |-> 0, locked |-> FALSE]

\* ------------------------------------------------------- result of handle
Ok == "Ok"
ErrLocked == "client is locked"
ErrDuplicate == "found duplicate transaction"
ErrFunds == "not enough funds to withdraw"
ErrNotFound == "could not find referenced transaction"
ErrMismatch == "transactions are not from the same client"
ErrInDispute == "already in dispute"
ErrResolved == "already resolved"
ErrNotInDispute == "is not in dispute"
ErrNotInDisputeResolved == "is not in dispute/resolved"
ErrNoAmount == "does not have an amount"

\* ------------------------------------------------------------ HashMap ops
\* HashMap::insert
insert(m, k, v) == [x \in DOMAIN m \cup {k} |-> IF x = k THEN v ELSE m[x]]

\* HashMap::entry(k).or_default()
or_default(m, k) == IF k \in DOMAIN m THEN m ELSE insert(m, k, Client_default)

\* tx_store.entry(k).and_modify(|t| t.status = s)
set_status(m, k, s) ==
    IF k \in DOMAIN m THEN [m EXCEPT ![k].status = s] ELSE m

\* What a call of handle leaves behind: both stores and the returned Result
Ret(cs, ts, res) == [client_store |-> cs, tx_store |-> ts, result |-> res]

\* ------------------------------------------------------------------ handle
\* In the branches below cs is the client store after entry(..).or_default(),
\* so cs[tx.client] is the `client` borrowed at the top of handle.

\* handle_deposit without the duplicate check: the insert overwrites
handle_deposit_overwrite(tx, cs, ts) ==
    Ret([cs EXCEPT ![tx.client].available = @ + tx.kind.amount],
        insert(ts, tx.tx, tx), Ok)

\* handle_deposit crediting the client above the duplicate check
handle_deposit_credit_first(tx, cs, ts) ==
    LET credited == [cs EXCEPT ![tx.client].available = @ + tx.kind.amount]
    IN  IF tx.tx \in DOMAIN ts
        THEN Ret(credited, ts, ErrDuplicate)
        ELSE Ret(credited, insert(ts, tx.tx, tx), Ok)

\* handle_deposit that takes an id for a duplicate only when the stored
\* transaction belongs to the same client, and overwrites it otherwise
handle_deposit_own_duplicates(tx, cs, ts) ==
    IF tx.tx \in DOMAIN ts /\ ts[tx.tx].client = tx.client
    THEN Ret(cs, ts, ErrDuplicate)
    ELSE Ret([cs EXCEPT ![tx.client].available = @ + tx.kind.amount],
             insert(ts, tx.tx, tx), Ok)

\* Deposit { amount } => ...
handle_deposit(tx, cs, ts) ==
    IF tx.tx \in DOMAIN ts
    THEN Ret(cs, ts, ErrDuplicate)
    ELSE Ret([cs EXCEPT ![tx.client].available = @ + tx.kind.amount],
             insert(ts, tx.tx, tx), Ok)

\* handle_withdrawal with the insert moved above the funds check
handle_withdrawal_insert_first(tx, cs, ts) ==
    IF tx.tx \in DOMAIN ts
    THEN Ret(cs, ts, ErrDuplicate)
    ELSE IF cs[tx.client].available < tx.kind.amount
         THEN Ret(cs, insert(ts, tx.tx, tx), ErrFunds)
         ELSE Ret([cs EXCEPT ![tx.client].available = @ - tx.kind.amount],
                  insert(ts, tx.tx, tx), Ok)

\* handle_withdrawal that asks for more than the amount to be available
handle_withdrawal_strict(tx, cs, ts) ==
    IF tx.tx \in DOMAIN ts
    THEN Ret(cs, ts, ErrDuplicate)
    ELSE IF cs[tx.client].available <= tx.kind.amount
         THEN Ret(cs, ts, ErrFunds)
         ELSE Ret([cs EXCEPT ![tx.client].available = @ - tx.kind.amount],
                  insert(ts, tx.tx, tx), Ok)

\* handle_withdrawal that checks the funds before the duplicate id
handle_withdrawal_funds_first(tx, cs, ts) ==
    IF cs[tx.client].available < tx.kind.amount
    THEN Ret(cs, ts, ErrFunds)
    ELSE IF tx.tx \in DOMAIN ts
         THEN Ret(cs, ts, ErrDuplicate)
         ELSE Ret([cs EXCEPT ![tx.client].available = @ - tx.kind.amount],
                  insert(ts, tx.tx, tx), Ok)

\* Withdrawal { amount } => ...
handle_withdrawal(tx, cs, ts) ==
    IF tx.tx \in DOMAIN ts
    THEN Ret(cs, ts, ErrDuplicate)
    ELSE IF cs[tx.client].available < tx.kind.amount
         THEN Ret(cs, ts, ErrFunds)
         ELSE Ret([cs EXCEPT ![tx.client].available = @ - tx.kind.amount],
                  insert(ts, tx.tx, tx), Ok)

\* handle_dispute without the check that rejects a Resolved transaction
handle_dispute_reopen(tx, ref_tx, cs, ts) ==
    IF ref_tx.status = "Disputed"
    THEN Ret(cs, ts, ErrInDispute)
    ELSE IF ref_tx.status = "Chargeback"
    THEN Ret(cs, ts, ErrResolved)
    ELSE IF ref_tx.kind.tag \in AmountKinds
    THEN Ret([cs EXCEPT ![tx.client].available = @ - ref_tx.kind.amount,
                        ![tx.client].held = @ + ref_tx.kind.amount],
             set_status(ts, tx.tx, "Disputed"), Ok)
    ELSE Ret(cs, ts, ErrNoAmount)

\* handle_dispute that also freezes the client while the dispute is open
handle_dispute_locks(tx, ref_tx, cs, ts) ==
    IF ref_tx.status = "Disputed"
    THEN Ret(cs, ts, ErrInDispute)
    ELSE IF ref_tx.status = "Resolved" \/ ref_tx.status = "Chargeback"
    THEN Ret(cs, ts, ErrResolved)
    ELSE IF ref_tx.kind.tag \in AmountKinds
    THEN Ret([cs EXCEPT ![tx.client].available = @ - ref_tx.kind.amount,
                        ![tx.client].held = @ + ref_tx.kind.amount,
                        ![tx.client].locked = TRUE],
             set_status(ts, tx.tx, "Disputed"), Ok)
    ELSE Ret(cs, ts, ErrNoAmount)

\* handle_dispute that refuses to hold more than is available
handle_dispute_funds_check(tx, ref_tx, cs, ts) ==
    IF ref_tx.status = "Disputed"
    THEN Ret(cs, ts, ErrInDispute)
    ELSE IF ref_tx.status = "Resolved" \/ ref_tx.status = "Chargeback"
    THEN Ret(cs, ts, ErrResolved)
    ELSE IF ref_tx.kind.tag \in AmountKinds
    THEN IF cs[tx.client].available < ref_tx.kind.amount
         THEN Ret(cs, ts, ErrFunds)
         ELSE Ret([cs EXCEPT ![tx.client].available = @ - ref_tx.kind.amount,
                             ![tx.client].held = @ + ref_tx.kind.amount],
                  set_status(ts, tx.tx, "Disputed"), Ok)
    ELSE Ret(cs, ts, ErrNoAmount)

\* handle_dispute that takes the amount from available without holding it
handle_dispute_no_hold(tx, ref_tx, cs, ts) ==
    IF ref_tx.status = "Disputed"
    THEN Ret(cs, ts, ErrInDispute)
    ELSE IF ref_tx.status = "Resolved" \/ ref_tx.status = "Chargeback"
    THEN Ret(cs, ts, ErrResolved)
    ELSE IF ref_tx.kind.tag \in AmountKinds
    THEN Ret([cs EXCEPT ![tx.client].available = @ - ref_tx.kind.amount],
             set_status(ts, tx.tx, "Disputed"), Ok)
    ELSE Ret(cs, ts, ErrNoAmount)

\* if matches!(tx.kind, Dispute) { ... }
handle_dispute(tx, ref_tx, cs, ts) ==
    IF ref_tx.status = "Disputed"
    THEN Ret(cs, ts, ErrInDispute)
    ELSE IF ref_tx.status = "Resolved" \/ ref_tx.status = "Chargeback"
    THEN Ret(cs, ts, ErrResolved)
    ELSE IF ref_tx.kind.tag \in AmountKinds
    THEN Ret([cs EXCEPT ![tx.client].available = @ - ref_tx.kind.amount,
                        ![tx.client].held = @ + ref_tx.kind.amount],
             set_status(ts, tx.tx, "Disputed"), Ok)
    ELSE Ret(cs, ts, ErrNoAmount)

\* handle_resolve that releases the funds but leaves held as it is
handle_resolve_keep_held(tx, ref_tx, cs, ts) ==
    IF ref_tx.status # "Disputed"
    THEN Ret(cs, ts, ErrNotInDispute)
    ELSE IF ref_tx.kind.tag \in AmountKinds
    THEN Ret([cs EXCEPT ![tx.client].available = @ + ref_tx.kind.amount],
             set_status(ts, tx.tx, "Resolved"), Ok)
    ELSE Ret(cs, ts, ErrNoAmount)

\* else if matches!(tx.kind, Resolve) { ... }
handle_resolve(tx, ref_tx, cs, ts) ==
    IF ref_tx.status # "Disputed"
    THEN Ret(cs, ts, ErrNotInDispute)
    ELSE IF ref_tx.kind.tag \in AmountKinds
    THEN Ret([cs EXCEPT ![tx.client].available = @ + ref_tx.kind.amount,
                        ![tx.client].held = @ - ref_tx.kind.amount],
             set_status(ts, tx.tx, "Resolved"), Ok)
    ELSE Ret(cs, ts, ErrNoAmount)

\* handle_chargeback that takes the amount from available instead of held
handle_chargeback_from_available(tx, ref_tx, cs, ts) ==
    IF ref_tx.status # "Disputed" /\ ref_tx.status # "Resolved"
    THEN Ret(cs, ts, ErrNotInDisputeResolved)
    ELSE IF ref_tx.kind.tag \in AmountKinds
    THEN Ret([cs EXCEPT ![tx.client].available = @ - ref_tx.kind.amount,
                        ![tx.client].locked = TRUE],
             set_status(ts, tx.tx, "Chargeback"), Ok)
    ELSE Ret(cs, ts, ErrNoAmount)

\* handle_chargeback that accepts a transaction in dispute only
handle_chargeback_disputed_only(tx, ref_tx, cs, ts) ==
    IF ref_tx.status # "Disputed"
    THEN Ret(cs, ts, ErrNotInDisputeResolved)
    ELSE IF ref_tx.kind.tag \in AmountKinds
    THEN Ret([cs EXCEPT ![tx.client].held = @ - ref_tx.kind.amount,
                        ![tx.client].locked = TRUE],
             set_status(ts, tx.tx, "Chargeback"), Ok)
    ELSE Ret(cs, ts, ErrNoAmount)

\* handle_chargeback that leaves the client unlocked
handle_chargeback_no_lock(tx, ref_tx, cs, ts) ==
    IF ref_tx.status # "Disputed" /\ ref_tx.status # "Resolved"
    THEN Ret(cs, ts, ErrNotInDisputeResolved)
    ELSE IF ref_tx.kind.tag \in AmountKinds
    THEN Ret([cs EXCEPT ![tx.client].held = @ - ref_tx.kind.amount],
             set_status(ts, tx.tx, "Chargeback"), Ok)
    ELSE Ret(cs, ts, ErrNoAmount)

\* handle_chargeback that gives the amount of a Withdrawal back
handle_chargeback_restore_withdrawal(tx, ref_tx, cs, ts) ==
    IF ref_tx.status # "Disputed" /\ ref_tx.status # "Resolved"
    THEN Ret(cs, ts, ErrNotInDisputeResolved)
    ELSE IF ref_tx.kind.tag = "Withdrawal"
    THEN Ret([cs EXCEPT ![tx.client].held = @ - ref_tx.kind.amount,
                        ![tx.client].available = @ + ref_tx.kind.amount,
                        ![tx.client].locked = TRUE],
             set_status(ts, tx.tx, "Chargeback"), Ok)
    ELSE IF ref_tx.kind.tag = "Deposit"
    THEN Ret([cs EXCEPT ![tx.client].held = @ - ref_tx.kind.amount,
                        ![tx.client].locked = TRUE],
             set_status(ts, tx.tx, "Chargeback"), Ok)
    ELSE Ret(cs, ts, ErrNoAmount)

\* else { ... }: the remaining kind is Chargeback
handle_chargeback(tx, ref_tx, cs, ts) ==
    IF ref_tx.status # "Disputed" /\ ref_tx.status # "Resolved"
    THEN Ret(cs, ts, ErrNotInDisputeResolved)
    ELSE IF ref_tx.kind.tag \in AmountKinds
    THEN Ret([cs EXCEPT ![tx.client].held = @ - ref_tx.kind.amount,
                        ![tx.client].locked = TRUE],
             set_status(ts, tx.tx, "Chargeback"), Ok)
    ELSE Ret(cs, ts, ErrNoAmount)

\* handle_reference without the comparison of the two client ids
handle_reference_any_client(tx, cs, ts) ==
    IF tx.tx \notin DOMAIN ts
    THEN Ret(cs, ts, ErrNotFound)
    ELSE IF tx.kind.tag = "Dispute"
    THEN handle_dispute(tx, ts[tx.tx], cs, ts)
    ELSE IF tx.kind.tag = "Resolve"
    THEN handle_resolve(tx, ts[tx.tx], cs, ts)
    ELSE handle_chargeback(tx, ts[tx.tx], cs, ts)

\* _ => { ... }: Dispute, Resolve and Chargeback reference a stored transaction
handle_reference(tx, cs, ts) ==
    IF tx.tx \notin DOMAIN ts
    THEN Ret(cs, ts, ErrNotFound)
    ELSE IF tx.client # ts[tx.tx].client
    THEN Ret(cs, ts, ErrMismatch)
    ELSE IF tx.kind.tag = "Dispute"
    THEN handle_dispute(tx, ts[tx.tx], cs, ts)
    ELSE IF tx.kind.tag = "Resolve"
    THEN handle_resolve(tx, ts[tx.tx], cs, ts)
    ELSE handle_chargeback(tx, ts[tx.tx], cs, ts)

\* handle that adds every accepted transaction to the record on its way out
handle_record_all(tx, cs, ts) ==
    LET cs1 == or_default(cs, tx.client)
        r == IF cs1[tx.client].locked
             THEN Ret(cs1, ts, ErrLocked)
             ELSE IF tx.kind.tag = "Deposit"
             THEN handle_deposit(tx, cs1, ts)
             ELSE IF tx.kind.tag = "Withdrawal"
             THEN handle_withdrawal(tx, cs1, ts)
             ELSE handle_reference(tx, cs1, ts)
    IN  IF r.result = Ok
        THEN Ret(r.client_store, insert(r.tx_store, tx.tx, tx), Ok)
        ELSE r

\* handle that hands back the client store it was given when it rejects
handle_rollback_on_reject(tx, cs, ts) ==
    LET cs1 == or_default(cs, tx.client)
        r == IF cs1[tx.client].locked
             THEN Ret(cs1, ts, ErrLocked)
             ELSE IF tx.kind.tag = "Deposit"
             THEN handle_deposit(tx, cs1, ts)
             ELSE IF tx.kind.tag = "Withdrawal"
             THEN handle_withdrawal(tx, cs1, ts)
             ELSE handle_reference(tx, cs1, ts)
    IN  IF r.result = Ok THEN r ELSE Ret(cs, ts, r.result)

\* handle without the early return for a locked client
handle_no_lock_check(tx, cs, ts) ==
    LET cs1 == or_default(cs, tx.client)
    IN  IF tx.kind.tag = "Deposit"
        THEN handle_deposit(tx, cs1, ts)
        ELSE IF tx.kind.tag = "Withdrawal"
        THEN handle_withdrawal(tx, cs1, ts)
        ELSE handle_reference(tx, cs1, ts)

\* handle that records the id of a Deposit or Withdrawal of a locked client
handle_record_locked(tx, cs, ts) ==
    LET cs1 == or_default(cs, tx.client)
    IN  IF cs1[tx.client].locked
        THEN Ret(cs1,
                 IF tx.kind.tag \in AmountKinds /\ tx.tx \notin DOMAIN ts
                 THEN insert(ts, tx.tx, tx)
                 ELSE ts,
                 ErrLocked)
        ELSE IF tx.kind.tag = "Deposit"
        THEN handle_deposit(tx, cs1, ts)
        ELSE IF tx.kind.tag = "Withdrawal"
        THEN handle_withdrawal(tx, cs1, ts)
        ELSE handle_reference(tx, cs1, ts)

\* pub fn handle(tx, client_store, tx_store) -> Result<(), Cow<str>>
handle(tx, cs, ts) ==
    LET cs1 == or_default(cs, tx.client)
    IN  IF cs1[tx.client].locked
        THEN Ret(cs1, ts, ErrLocked)
        ELSE IF tx.kind.tag = "Deposit"
        THEN handle_deposit(tx, cs1, ts)
        ELSE IF tx.kind.tag = "Withdrawal"
        THEN handle_withdrawal(tx, cs1, ts)
        ELSE handle_reference(tx, cs1, ts)

\* ------------------------------------------------------------------- state
VARIABLES
    client_store,   \* main: HashMap<u16, Client<Decimal>>
    tx_store,       \* main: HashMap<u32, Transaction<Decimal>>
    last,           \* the transaction handed to handle last, and its Result
    before,         \* both stores as they were when that call started
    accepted,       \* per client, the amounts of the Deposits / Withdrawals
                    \* for which handle returned Ok, summed
    named,          \* the client ids of the transactions handed to handle
    accepted_rows,  \* the Deposits / Withdrawals for which handle returned Ok
    charged_from    \* per charged-back transaction, the status it had when
                    \* the Chargeback was accepted

vars == <<client_store, tx_store, last, before, accepted, named,
          accepted_rows, charged_from>>

NoTransaction == Transaction_new([tag |-> "None"], 0, 0)

Init ==
    /\ client_store = <<>>
    /\ tx_store = <<>>
    /\ last = [tx |-> NoTransaction, result |-> "none"]
    /\ before = [client_store |-> <<>>, tx_store |-> <<>>]
    /\ accepted = [c \in Clients |-> [deposits |-> 0, withdrawals |-> 0]]
    /\ named = {}
    /\ accepted_rows = {}
    /\ charged_from = <<>>

\* The bookkeeping of accepted amounts, kept beside the stores
record_accepted(acc, tx, res) ==
    IF res # Ok THEN acc
    ELSE IF tx.kind.tag = "Deposit"
    THEN [acc EXCEPT ![tx.client].deposits = @ + tx.kind.amount]
    ELSE IF tx.kind.tag = "Withdrawal"
    THEN [acc EXCEPT ![tx.client].withdrawals = @ + tx.kind.amount]
    ELSE acc

\* The Deposits and Withdrawals accepted so far, as the rows that were handed in
record_row(rows, tx, res) ==
    IF res = Ok /\ tx.kind.tag \in AmountKinds THEN rows \cup {tx} ELSE rows

\* The status a transaction had when a Chargeback of it was accepted
record_charged(from, tx, res, ts) ==
    IF res = Ok /\ tx.kind.tag = "Chargeback" /\ tx.tx \in DOMAIN ts
    THEN insert(from, tx.tx, ts[tx.tx].status)
    ELSE from

\* The call the loop of main makes and what it returns
Call(tx) == [tx |-> tx, result |-> handle(tx, client_store, tx_store).result]

\* One iteration of the loop of main: handle(&tx, &mut client_store, &mut tx_store)
Apply(tx) ==
    LET r == handle(tx, client_store, tx_store)
    IN  /\ client_store' = r.client_store
        /\ tx_store' = r.tx_store
        /\ before' = [client_store |-> client_store, tx_store |-> tx_store]
        /\ accepted' = record_accepted(accepted, tx, r.result)
        /\ named' = named \cup {tx.client}
        /\ accepted_rows' = record_row(accepted_rows, tx, r.result)
        /\ charged_from' = record_charged(charged_from, tx, r.result, tx_store)

Deposit ==
    \E c \in Clients, t \in TxIds, a \in Amounts :
        LET tx == Transaction_new([tag |-> "Deposit", amount |-> a], c, t)
        IN  /\ last' = Call(tx)
            /\ Apply(tx)

Withdrawal ==
    \E c \in Clients, t \in TxIds, a \in Amounts :
        LET tx == Transaction_new([tag |-> "Withdrawal", amount |-> a], c, t)
        IN  /\ last' = Call(tx)
            /\ Apply(tx)

Dispute ==
    \E c \in Clients, t \in TxIds :
        LET tx == Transaction_new([tag |-> "Dispute"], c, t)
        IN  /\ last' = Call(tx)
            /\ Apply(tx)

Resolve ==
    \E c \in Clients, t \in TxIds :
        LET tx == Transaction_new([tag |-> "Resolve"], c, t)
        IN  /\ last' = Call(tx)
            /\ Apply(tx)

Chargeback ==
    \E c \in Clients, t \in TxIds :
        LET tx == Transaction_new([tag |-> "Chargeback"], c, t)
        IN  /\ last' = Call(tx)
            /\ Apply(tx)

Next == Deposit \/ Withdrawal \/ Dispute \/ Resolve \/ Chargeback

Spec == Init /\ [][Next]_vars

\* A stream that carries only Deposit and Withdrawal rows
NextDW == Deposit \/ Withdrawal

SpecDW == Init /\ [][NextDW]_vars

\* -------------------------------------------------------------- type check
TypeOK ==
    /\ DOMAIN client_store \subseteq Clients
    /\ DOMAIN tx_store \subseteq TxIds
    /\ \A t \in DOMAIN tx_store : tx_store[t].status \in TransactionStatus
    /\ \A c \in DOMAIN client_store : client_store[c].locked \in BOOLEAN

\* ------------------------------------------------- reading the last call
Called == last.result # "none"
Accepted == last.result = Ok
Rejected == Called /\ last.result # Ok

\* the account the last call named, and whether it was locked when called
WasKnown(c) == c \in DOMAIN before.client_store
WasLocked(c) == WasKnown(c) /\ before.client_store[c].locked

\* the stored transaction the last call referenced, as it was when called
WasStored(t) == t \in DOMAIN before.tx_store


\* ------------------------------------------------------------------ claims

\* C1 as stated: whenever handle returns an error, the client store and the
\* transaction store are what they were before the call, keys included.
C1_NoMutationOnReject ==
    Rejected =>
        /\ client_store = before.client_store
        /\ tx_store = before.tx_store

\* C1 as the code has it: whenever handle returns an error, the transaction
\* store is what it was before the call and every client record that existed
\* before the call is unchanged; the one change a rejected call can make is
\* the insertion of a default record (available 0, held 0, unlocked) for the
\* client the transaction names, when the store had no record for it.
C1_RejectOnlyCreatesClient ==
    Rejected =>
        /\ tx_store = before.tx_store
        /\ DOMAIN client_store = DOMAIN before.client_store \cup {last.tx.client}
        /\ \A c \in DOMAIN before.client_store :
               client_store[c] = before.client_store[c]
        /\ ~WasKnown(last.tx.client) =>
               client_store[last.tx.client] = Client_default

\* a rejected call named a client the store did not hold, while other
\* clients and transactions were already stored
C1_Witness ==
    /\ Rejected
    /\ ~WasKnown(last.tx.client)
    /\ before.client_store # <<>>
    /\ before.tx_store # <<>>

\* C2: a client that is locked stays locked, and every transaction of any
\* kind that names a locked client is rejected with "client is locked" and
\* leaves that client's record and the whole transaction store unchanged.
C2_LockFinality ==
    /\ \A c \in DOMAIN before.client_store :
           before.client_store[c].locked =>
               c \in DOMAIN client_store /\ client_store[c].locked
    /\ Called /\ WasLocked(last.tx.client) =>
           /\ last.result = ErrLocked
           /\ client_store[last.tx.client] = before.client_store[last.tx.client]
           /\ tx_store = before.tx_store

\* a Dispute of a transaction still in status Started, owned by the locked
\* client that names it, was rejected as locked
C2_Witness ==
    /\ last.result = ErrLocked
    /\ last.tx.kind.tag = "Dispute"
    /\ WasStored(last.tx.tx)
    /\ before.tx_store[last.tx.tx].client = last.tx.client
    /\ before.tx_store[last.tx.tx].status = "Started"

\* The edges of the per-transaction state machine
StatusEdges ==
    { <<"Started", "Disputed">>, <<"Disputed", "Resolved">>,
      <<"Disputed", "Chargeback">>, <<"Resolved", "Chargeback">> }

\* C3: a stored transaction is never removed, and over one call its status
\* either stays or moves along Started->Disputed, Disputed->Resolved,
\* Disputed->Chargeback or Resolved->Chargeback; from Chargeback it never moves.
C3_StatusEdges ==
    \A t \in DOMAIN before.tx_store :
        /\ t \in DOMAIN tx_store
        /\ \/ tx_store[t].status = before.tx_store[t].status
           \/ <<before.tx_store[t].status, tx_store[t].status>> \in StatusEdges
        /\ before.tx_store[t].status = "Chargeback" =>
               tx_store[t].status = "Chargeback"

\* a Resolved transaction was charged back
C3_Witness ==
    \E t \in DOMAIN before.tx_store :
        /\ before.tx_store[t].status = "Resolved"
        /\ tx_store[t].status = "Chargeback"


\* C4: a Deposit or Withdrawal that names an unlocked (or not yet stored)
\* client and carries a transaction id that is already a key of the
\* transaction store is rejected as a duplicate; the transaction store,
\* and with it the stored transaction's kind, amount, client and status,
\* is unchanged, and so are available and held of every client.
C4_DuplicateRejected ==
    ( /\ Called
      /\ last.tx.kind.tag \in AmountKinds
      /\ WasStored(last.tx.tx)
      /\ ~WasLocked(last.tx.client) ) =>
        /\ last.result = ErrDuplicate
        /\ tx_store = before.tx_store
        /\ \A c \in DOMAIN before.client_store :
               /\ client_store[c].available = before.client_store[c].available
               /\ client_store[c].held = before.client_store[c].held
        /\ \A c \in DOMAIN client_store \ DOMAIN before.client_store :
               /\ client_store[c].available = 0
               /\ client_store[c].held = 0

\* a Withdrawal was rejected as a duplicate of a stored Deposit that belongs
\* to another client, carries another amount and is no longer in Started
C4_Witness ==
    /\ last.result = ErrDuplicate
    /\ last.tx.kind.tag = "Withdrawal"
    /\ before.tx_store[last.tx.tx].kind.tag = "Deposit"
    /\ before.tx_store[last.tx.tx].kind.amount # last.tx.kind.amount
    /\ before.tx_store[last.tx.tx].client # last.tx.client
    /\ before.tx_store[last.tx.tx].status # "Started"

\* C5 (streams of Deposit and Withdrawal rows only, SpecDW): after every
\* prefix, each client's available is the sum of its accepted Deposit
\* amounts minus the sum of its accepted Withdrawal amounts, its held is 0
\* and it is unlocked; a client no row has named has accepted nothing.
C5_BalanceConservation ==
    \A c \in Clients :
        IF c \in DOMAIN client_store
        THEN /\ client_store[c].available =
                    accepted[c].deposits - accepted[c].withdrawals
             /\ client_store[c].held = 0
             /\ ~client_store[c].locked
        ELSE accepted[c] = [deposits |-> 0, withdrawals |-> 0]

\* a row was rejected as a duplicate after another client had a Deposit and
\* a Withdrawal accepted, the row's own client being stored by then as well
C5_Witness ==
    /\ last.result = ErrDuplicate
    /\ \E c \in DOMAIN client_store :
           /\ c # last.tx.client
           /\ accepted[c].deposits > 0
           /\ accepted[c].withdrawals > 0

\* the amount of the stored transaction the last call referenced
RefAmount == before.tx_store[last.tx.tx].kind.amount

\* available + held, the total main prints
Total(cl) == cl.available + cl.held

\* C6: an accepted Dispute of a stored transaction with amount a changes
\* available by -a and held by +a; an accepted Resolve changes available by
\* +a and held by -a; and a Resolve of the same transaction applied right
\* after an accepted Dispute is accepted and leaves available and held at
\* their values before the Dispute, with available + held the same before
\* the Dispute, between the two calls and after the Resolve.
C6_DisputeResolveInverse ==
    LET c == last.tx.client
        t == last.tx.tx
        resolve == handle(Transaction_new([tag |-> "Resolve"], c, t),
                          client_store, tx_store)
    IN  /\ (Accepted /\ last.tx.kind.tag = "Dispute") =>
               /\ client_store[c].available =
                      before.client_store[c].available - RefAmount
               /\ client_store[c].held = before.client_store[c].held + RefAmount
               /\ Total(client_store[c]) = Total(before.client_store[c])
               /\ resolve.result = Ok
               /\ resolve.client_store[c].available =
                      before.client_store[c].available
               /\ resolve.client_store[c].held = before.client_store[c].held
               /\ Total(resolve.client_store[c]) = Total(before.client_store[c])
        /\ (Accepted /\ last.tx.kind.tag = "Resolve") =>
               /\ client_store[c].available =
                      before.client_store[c].available + RefAmount
               /\ client_store[c].held = before.client_store[c].held - RefAmount
               /\ Total(client_store[c]) = Total(before.client_store[c])

\* a Resolve of a Withdrawal with a non-zero amount was accepted on a client
\* that still holds funds of another dispute
C6_Witness ==
    /\ Accepted
    /\ last.tx.kind.tag = "Resolve"
    /\ before.tx_store[last.tx.tx].kind.tag = "Withdrawal"
    /\ RefAmount # 0
    /\ client_store[last.tx.client].held # 0

\* C7: an accepted Chargeback of a stored transaction with amount a in status
\* Disputed decreases held by a, leaves available unchanged, sets the
\* transaction's status to Chargeback and locks the client; a Chargeback
\* applied right after the accepted Dispute of a transaction on a client
\* whose held was 0 is accepted and leaves held at 0.
C7_ChargebackEffect ==
    LET c == last.tx.client
        t == last.tx.tx
        chargeback == handle(Transaction_new([tag |-> "Chargeback"], c, t),
                             client_store, tx_store)
    IN  /\ ( /\ Accepted
             /\ last.tx.kind.tag = "Chargeback"
             /\ before.tx_store[t].status = "Disputed" ) =>
               /\ client_store[c].held = before.client_store[c].held - RefAmount
               /\ client_store[c].available = before.client_store[c].available
               /\ Total(client_store[c]) =
                      Total(before.client_store[c]) - RefAmount
               /\ tx_store[t].status = "Chargeback"
               /\ client_store[c].locked
        /\ ( /\ Accepted
             /\ last.tx.kind.tag = "Dispute"
             /\ before.client_store[c].held = 0 ) =>
               /\ chargeback.result = Ok
               /\ chargeback.client_store[c].held = 0
               /\ chargeback.client_store[c].locked
               /\ chargeback.tx_store[t].status = "Chargeback"

\* a Chargeback of a Disputed transaction with a non-zero amount was accepted
C7_Witness ==
    /\ Accepted
    /\ last.tx.kind.tag = "Chargeback"
    /\ before.tx_store[last.tx.tx].status = "Disputed"
    /\ RefAmount # 0


\* the last call was a Dispute, Resolve or Chargeback naming a client other
\* than the one the stored transaction it references belongs to
CrossClientReference ==
    /\ Called
    /\ last.tx.kind.tag \in RefKinds
    /\ WasStored(last.tx.tx)
    /\ before.tx_store[last.tx.tx].client # last.tx.client

\* what a cross-client reference leaves alone: the referenced transaction
\* and the record of the client that owns it
OwnerUntouched ==
    LET owner == before.tx_store[last.tx.tx].client
    IN  /\ tx_store[last.tx.tx] = before.tx_store[last.tx.tx]
        /\ owner \in DOMAIN before.client_store
        /\ client_store[owner] = before.client_store[owner]

\* C8 as stated: every cross-client Dispute, Resolve or Chargeback is
\* rejected with "transactions are not from the same client", and the
\* referenced transaction and its owner's record are unchanged.
C8_MismatchAlways ==
    CrossClientReference =>
        /\ last.result = ErrMismatch
        /\ OwnerUntouched

\* C8 as the code has it: a cross-client Dispute, Resolve or Chargeback is
\* rejected, with "transactions are not from the same client" when the
\* client it names is unlocked and with "client is locked" when that client
\* is locked, whatever the status of the referenced transaction; the
\* referenced transaction and its owner's record are unchanged.
C8_MismatchUnlessLocked ==
    CrossClientReference =>
        /\ last.result =
               IF WasLocked(last.tx.client) THEN ErrLocked ELSE ErrMismatch
        /\ OwnerUntouched

\* a Chargeback naming another client than the owner of a Disputed
\* transaction was rejected as a mismatch
C8_Witness ==
    /\ CrossClientReference
    /\ last.result = ErrMismatch
    /\ last.tx.kind.tag = "Chargeback"
    /\ before.tx_store[last.tx.tx].status = "Disputed"

\* C9: every record of the transaction store is a Deposit or a Withdrawal,
\* and handle never returns "does not have an amount".
C9_OnlyAmountKindsStored ==
    /\ \A t \in DOMAIN tx_store : tx_store[t].kind.tag \in AmountKinds
    /\ last.result # ErrNoAmount

\* a Dispute, a Resolve and a Chargeback have been accepted: one stored
\* transaction is Resolved, another is charged back
C9_Witness ==
    /\ Accepted
    /\ last.tx.kind.tag = "Chargeback"
    /\ \E t \in DOMAIN tx_store : tx_store[t].status = "Resolved"

\* The transactions that name another client than the last call did
OtherClient == {e \in Transactions : e.client # last.tx.client}

\* With e1 the last call, applied to the stores `before`: e1 then e2 and
\* e2 then e1 end in the same stores, and each of the two is accepted in one
\* order exactly if it is accepted in the other.
Commutes(e2) ==
    LET e1 == last.tx
        r12 == handle(e2, client_store, tx_store)
        r2 == handle(e2, before.client_store, before.tx_store)
        r21 == handle(e1, r2.client_store, r2.tx_store)
    IN  /\ r12.client_store = r21.client_store
        /\ r12.tx_store = r21.tx_store
        /\ (last.result = Ok) <=> (r21.result = Ok)
        /\ (r12.result = Ok) <=> (r2.result = Ok)

\* C10 as stated: any two transactions naming different clients commute,
\* also when they carry the same transaction id.
C10_CrossClientCommute ==
    Called => \A e2 \in OtherClient : Commutes(e2)

\* C10 as the code has it: two transactions naming different clients
\* commute unless both are Deposits or Withdrawals carrying the same
\* transaction id.
C10_CommuteUnlessSameNewId ==
    Called =>
        \A e2 \in OtherClient :
            ~( /\ e2.tx = last.tx.tx
               /\ e2.kind.tag \in AmountKinds
               /\ last.tx.kind.tag \in AmountKinds ) => Commutes(e2)

\* an accepted Deposit and a Dispute carrying the same transaction id and
\* naming another client: the Dispute is rejected in either order
C10_Witness ==
    /\ Accepted
    /\ last.tx.kind.tag = "Deposit"
    /\ \E e2 \in OtherClient :
           /\ e2.tx = last.tx.tx
           /\ e2.kind.tag = "Dispute"
           /\ handle(e2, client_store, tx_store).result = ErrMismatch
           /\ handle(e2, before.client_store, before.tx_store).result = ErrNotFound


\* whether the client store holds c as a locked client
IsLocked(cs, c) == c \in DOMAIN cs /\ cs[c].locked

\* C11: over one call no client goes from locked to unlocked, and a client
\* goes from unlocked (or not yet stored) to locked only when the call is an
\* accepted Chargeback naming that client; a Deposit, Withdrawal, Dispute or
\* Resolve, accepted or rejected, leaves locked of every client as it was.
C11_LockedOnlyByChargeback ==
    /\ \A c \in Clients :
           /\ IsLocked(before.client_store, c) => IsLocked(client_store, c)
           /\ (~IsLocked(before.client_store, c) /\ IsLocked(client_store, c)) =>
                  /\ Accepted
                  /\ last.tx.kind.tag = "Chargeback"
                  /\ last.tx.client = c
    /\ (Called /\ last.tx.kind.tag # "Chargeback") =>
           \A c \in Clients :
               IsLocked(client_store, c) <=> IsLocked(before.client_store, c)

\* an accepted Chargeback locked its client while the other client, locked
\* before, stayed locked
C11_Witness ==
    /\ Accepted
    /\ last.tx.kind.tag = "Chargeback"
    /\ ~IsLocked(before.client_store, last.tx.client)
    /\ IsLocked(client_store, last.tx.client)
    /\ \E c \in Clients :
           c # last.tx.client /\ IsLocked(before.client_store, c)

\* C12: after a call naming a client id the store did not hold, the store
\* holds it, whether the call was accepted or rejected, with available 0,
\* held 0 and unlocked when it was rejected; no call removes a key; and the
\* keys of the client store are exactly the client ids named so far.
C12_CreatedOnFirstReference ==
    /\ Called => last.tx.client \in DOMAIN client_store
    /\ (Rejected /\ ~WasKnown(last.tx.client)) =>
           client_store[last.tx.client] = Client_default
    /\ DOMAIN before.client_store \subseteq DOMAIN client_store
    /\ DOMAIN client_store = named

\* a Dispute naming an unknown client and an unknown transaction was
\* rejected, and both clients are in the store
C12_Witness ==
    /\ last.result = ErrNotFound
    /\ ~WasKnown(last.tx.client)
    /\ client_store[last.tx.client] = Client_default
    /\ DOMAIN client_store = Clients


\* the record handle worked on in the last call, as it was when called: the
\* stored one, or the default one or_default inserts
ClientBefore ==
    IF WasKnown(last.tx.client)
    THEN before.client_store[last.tx.client]
    ELSE Client_default

\* the last call referenced a stored transaction of the client it named,
\* and that client was not locked
OwnReference(kind) ==
    /\ Called
    /\ last.tx.kind.tag = kind
    /\ ~WasLocked(last.tx.client)
    /\ WasStored(last.tx.tx)
    /\ before.tx_store[last.tx.tx].client = last.tx.client

\* C13: a Withdrawal naming an unlocked client and an id the store does not
\* hold is accepted exactly if available >= amount; accepted, it lowers
\* available by the amount, leaves held and stores the row in status Started;
\* otherwise it is rejected for insufficient funds, leaves available and held
\* and does not store the id. An accepted Withdrawal of a non-negative
\* amount never leaves available negative.
C13_WithdrawalRule ==
    LET c == last.tx.client
        t == last.tx.tx
        a == last.tx.kind.amount
    IN  /\ ( /\ Called
             /\ last.tx.kind.tag = "Withdrawal"
             /\ ~WasLocked(c)
             /\ ~WasStored(t) ) =>
               /\ Accepted <=> ClientBefore.available >= a
               /\ Accepted =>
                      /\ client_store[c].available = ClientBefore.available - a
                      /\ client_store[c].held = ClientBefore.held
                      /\ t \in DOMAIN tx_store
                      /\ tx_store[t] = last.tx
                      /\ tx_store[t].status = "Started"
               /\ ~Accepted =>
                      /\ last.result = ErrFunds
                      /\ client_store[c].available = ClientBefore.available
                      /\ client_store[c].held = ClientBefore.held
                      /\ t \notin DOMAIN tx_store
        /\ (Accepted /\ last.tx.kind.tag = "Withdrawal" /\ a >= 0) =>
               client_store[c].available >= 0

\* a Withdrawal of all that was available, a positive amount, was accepted
C13_Witness ==
    /\ Accepted
    /\ last.tx.kind.tag = "Withdrawal"
    /\ last.tx.kind.amount > 0
    /\ ClientBefore.available = last.tx.kind.amount
    /\ client_store[last.tx.client].available = 0

\* the stored transactions of client c
TxOf(ts, c) == {t \in DOMAIN ts : ts[t].client = c}

\* C14: a Chargeback of a Resolved transaction with amount a, made by its
\* unlocked owner, is accepted, sets the status to Chargeback, locks the
\* client, lowers held by a and leaves available; when that transaction is a
\* Deposit and the client's only stored transaction, held ends at -a and
\* available at a.
C14_ChargebackOfResolved ==
    LET c == last.tx.client
        t == last.tx.tx
    IN  ( /\ OwnReference("Chargeback")
          /\ before.tx_store[t].status = "Resolved" ) =>
            /\ Accepted
            /\ tx_store[t].status = "Chargeback"
            /\ client_store[c].locked
            /\ client_store[c].held = before.client_store[c].held - RefAmount
            /\ client_store[c].available = before.client_store[c].available
            /\ ( /\ TxOf(before.tx_store, c) = {t}
                 /\ before.tx_store[t].kind.tag = "Deposit" ) =>
                   /\ client_store[c].held = 0 - RefAmount
                   /\ client_store[c].available = RefAmount

\* after Deposit, Dispute, Resolve and Chargeback of a positive amount the
\* client's held is negative
C14_Witness ==
    /\ OwnReference("Chargeback")
    /\ Accepted
    /\ before.tx_store[last.tx.tx].status = "Resolved"
    /\ before.tx_store[last.tx.tx].kind.tag = "Deposit"
    /\ TxOf(before.tx_store, last.tx.client) = {last.tx.tx}
    /\ RefAmount > 0
    /\ client_store[last.tx.client].held < 0

\* C15: a Dispute of a Started transaction with amount a, made by its
\* unlocked owner, is accepted whatever available is, and sets available to
\* available - a and held to held + a.
C15_DisputeNoFundsCheck ==
    LET c == last.tx.client
        t == last.tx.tx
    IN  ( /\ OwnReference("Dispute")
          /\ before.tx_store[t].status = "Started" ) =>
            /\ Accepted
            /\ tx_store[t].status = "Disputed"
            /\ client_store[c].available =
                   before.client_store[c].available - RefAmount
            /\ client_store[c].held = before.client_store[c].held + RefAmount

\* a Deposit of a positive amount was disputed after the funds had been
\* withdrawn: available is negative
C15_Witness ==
    /\ OwnReference("Dispute")
    /\ Accepted
    /\ before.tx_store[last.tx.tx].kind.tag = "Deposit"
    /\ RefAmount > 0
    /\ before.client_store[last.tx.client].available = 0
    /\ client_store[last.tx.client].available = 0 - RefAmount
    /\ client_store[last.tx.client].held = RefAmount


\* C16: the rejection reason is that of the first failing check: client
\* locked before everything else; for Deposit and Withdrawal, duplicate id
\* before insufficient funds; for Dispute, Resolve and Chargeback, referenced
\* transaction not found, then client mismatch, then the status: Dispute of a
\* Disputed transaction is "already in dispute", Dispute of a Resolved one
\* "already resolved", Resolve of one not Disputed "is not in dispute",
\* Chargeback of a Started one "is not in dispute/resolved".
C16_RejectionOrder ==
    LET c == last.tx.client
        t == last.tx.tx
        k == last.tx.kind.tag
    IN  Called =>
            /\ WasLocked(c) <=> last.result = ErrLocked
            /\ (~WasLocked(c) /\ k \in AmountKinds /\ WasStored(t)) =>
                   last.result = ErrDuplicate
            /\ ( /\ ~WasLocked(c)
                 /\ k = "Withdrawal"
                 /\ ~WasStored(t)
                 /\ ClientBefore.available < last.tx.kind.amount ) =>
                   last.result = ErrFunds
            /\ (~WasLocked(c) /\ k \in RefKinds /\ ~WasStored(t)) =>
                   last.result = ErrNotFound
            /\ ( /\ ~WasLocked(c)
                 /\ k \in RefKinds
                 /\ WasStored(t)
                 /\ before.tx_store[t].client # c ) =>
                   last.result = ErrMismatch
            /\ (OwnReference("Dispute") /\ before.tx_store[t].status = "Disputed") =>
                   last.result = ErrInDispute
            /\ (OwnReference("Dispute") /\ before.tx_store[t].status = "Resolved") =>
                   last.result = ErrResolved
            /\ (OwnReference("Resolve") /\ before.tx_store[t].status # "Disputed") =>
                   last.result = ErrNotInDispute
            /\ (OwnReference("Chargeback") /\ before.tx_store[t].status = "Started") =>
                   last.result = ErrNotInDisputeResolved

\* a Withdrawal that fails both the duplicate check and the funds check is
\* rejected as a duplicate
C16_Witness ==
    /\ last.tx.kind.tag = "Withdrawal"
    /\ ~WasLocked(last.tx.client)
    /\ WasStored(last.tx.tx)
    /\ ClientBefore.available < last.tx.kind.amount
    /\ last.result = ErrDuplicate

\* the stored transactions of client c in status Chargeback
ChargedBackOf(ts, c) == {t \in TxOf(ts, c) : ts[t].status = "Chargeback"}

\* C17: a client is locked exactly if one stored transaction of that client
\* has status Chargeback, and no client has more than one; so a Dispute,
\* Resolve or Chargeback of a transaction in status Chargeback is rejected
\* for the locked client or for the client mismatch, and "already resolved"
\* is only returned for a transaction in status Resolved.
C17_LockedIffChargedBack ==
    /\ \A c \in Clients :
           /\ Cardinality(ChargedBackOf(tx_store, c)) <= 1
           /\ IsLocked(client_store, c) <=>
                  Cardinality(ChargedBackOf(tx_store, c)) = 1
    /\ ( /\ Called
         /\ last.tx.kind.tag \in RefKinds
         /\ WasStored(last.tx.tx)
         /\ before.tx_store[last.tx.tx].status = "Chargeback" ) =>
           last.result \in {ErrLocked, ErrMismatch}
    /\ last.result = ErrResolved =>
           /\ WasStored(last.tx.tx)
           /\ before.tx_store[last.tx.tx].status = "Resolved"

\* an unlocked client referenced the charged back transaction of a locked one
C17_Witness ==
    /\ last.tx.kind.tag \in RefKinds
    /\ WasStored(last.tx.tx)
    /\ before.tx_store[last.tx.tx].status = "Chargeback"
    /\ last.result = ErrMismatch
    /\ IsLocked(client_store, before.tx_store[last.tx.tx].client)
    /\ ~IsLocked(client_store, last.tx.client)

\* the sum of the amounts of the stored transactions S
RECURSIVE SumAmounts(_, _)
SumAmounts(ts, S) ==
    IF S = {}
    THEN 0
    ELSE LET t == CHOOSE x \in S : TRUE
         IN  ts[t].kind.amount + SumAmounts(ts, S \ {t})

\* the stored transactions of client c in status Disputed
DisputedOf(ts, c) == {t \in TxOf(ts, c) : ts[t].status = "Disputed"}

\* C18: held of an unlocked client is the sum of the amounts of its stored
\* transactions in status Disputed; so, when the client's stored amounts are
\* not negative, held of an unlocked client is not negative, and held is
\* negative only for a locked client whose Chargeback transaction was
\* charged back from status Resolved.
C18_HeldIsDisputedSum ==
    \A c \in DOMAIN client_store :
        /\ ~client_store[c].locked =>
               client_store[c].held = SumAmounts(tx_store, DisputedOf(tx_store, c))
        /\ (\A t \in TxOf(tx_store, c) : tx_store[t].kind.amount >= 0) =>
               /\ ~client_store[c].locked => client_store[c].held >= 0
               /\ client_store[c].held < 0 =>
                      /\ client_store[c].locked
                      /\ \E t \in ChargedBackOf(tx_store, c) :
                             /\ t \in DOMAIN charged_from
                             /\ charged_from[t] = "Resolved"

\* one client is unlocked with a positive amount held for a Disputed
\* transaction, another is locked with negative held after the Chargeback
\* of a Resolved transaction
C18_Witness ==
    \E c, d \in DOMAIN client_store :
        /\ ~client_store[c].locked
        /\ DisputedOf(tx_store, c) # {}
        /\ client_store[c].held > 0
        /\ client_store[d].locked
        /\ client_store[d].held < 0
        /\ \A t \in TxOf(tx_store, d) : tx_store[t].kind.amount >= 0
        /\ \E t \in ChargedBackOf(tx_store, d) : charged_from[t] = "Resolved"

\* the stored transactions of client c of the given kind
KindOf(ts, c, kind) == {t \in TxOf(ts, c) : ts[t].kind.tag = kind}

\* C19: available + held of a client is the sum of its stored Deposits less
\* the sum of its stored Withdrawals less the amount of its Chargeback
\* transaction, if any, whether that one is a Deposit or a Withdrawal.
C19_TotalIsNetLessChargeback ==
    \A c \in DOMAIN client_store :
        Total(client_store[c]) =
            SumAmounts(tx_store, KindOf(tx_store, c, "Deposit"))
            - SumAmounts(tx_store, KindOf(tx_store, c, "Withdrawal"))
            - SumAmounts(tx_store, ChargedBackOf(tx_store, c))

\* the Chargeback of a Withdrawal of a positive amount lowered the total
\* by that amount again
C19_Witness ==
    /\ OwnReference("Chargeback")
    /\ Accepted
    /\ before.tx_store[last.tx.tx].kind.tag = "Withdrawal"
    /\ RefAmount > 0
    /\ Total(client_store[last.tx.client]) =
           Total(before.client_store[last.tx.client]) - RefAmount
    /\ Total(client_store[last.tx.client]) =
           SumAmounts(tx_store, KindOf(tx_store, last.tx.client, "Deposit"))
           - 2 * RefAmount

\* the ids of a set of rows
IdsOf(rows) == {r.tx : r \in rows}

\* the keys of tx_store are the ids of the accepted Deposit and Withdrawal
\* rows, one row per id, each stored with the client and kind of its row,
\* and no key is ever removed
StoreIsAcceptedRows ==
    /\ DOMAIN tx_store = IdsOf(accepted_rows)
    /\ \A r, q \in accepted_rows : r.tx = q.tx => r = q
    /\ \A r \in accepted_rows :
           /\ tx_store[r.tx].client = r.client
           /\ tx_store[r.tx].kind = r.kind
    /\ DOMAIN before.tx_store \subseteq DOMAIN tx_store

\* the last call was a Deposit or Withdrawal with an id not stored, and was
\* rejected for insufficient funds or for the locked client
RejectedNewId ==
    /\ last.tx.kind.tag \in AmountKinds
    /\ last.result \in {ErrFunds, ErrLocked}
    /\ ~WasStored(last.tx.tx)

\* the result of a call of the given kind, client and id in this state
ResultOf(kind, c, t) ==
    handle(Transaction_new(kind, c, t), client_store, tx_store).result

\* the id of the rejected row is not stored, and a Deposit or Withdrawal
\* with that id for an unlocked client is not a duplicate
RejectedIdNotRecorded ==
    RejectedNewId =>
        /\ last.tx.tx \notin DOMAIN tx_store
        /\ \A c \in Clients, k \in AmountKinds, a \in Amounts :
               ~IsLocked(client_store, c) =>
                   ResultOf([tag |-> k, amount |-> a], c, last.tx.tx)
                       # ErrDuplicate

\* C20 as stated: the keys of tx_store are the ids of the accepted Deposit
\* and Withdrawal rows, and after the rejection of a Deposit or Withdrawal
\* every Dispute of its id is rejected as not found.
C20_RejectedIdNotFound ==
    /\ StoreIsAcceptedRows
    /\ RejectedIdNotRecorded
    /\ RejectedNewId =>
           \A c \in Clients :
               ResultOf([tag |-> "Dispute"], c, last.tx.tx) = ErrNotFound

\* C20: the keys of tx_store are the ids of the accepted Deposit and
\* Withdrawal rows, each stored with the client, kind and amount of its row
\* and never removed; the id of a Deposit or Withdrawal rejected for
\* insufficient funds or a locked client is not recorded, a Deposit or
\* Withdrawal with that id for an unlocked client is not a duplicate, and a
\* Dispute of that id is rejected as not found when it names an unlocked
\* client and as locked when it names a locked one.
C20_RejectedIdNotFoundUnlessLocked ==
    /\ StoreIsAcceptedRows
    /\ RejectedIdNotRecorded
    /\ RejectedNewId =>
           \A c \in Clients :
               ResultOf([tag |-> "Dispute"], c, last.tx.tx) =
                   IF IsLocked(client_store, c) THEN ErrLocked ELSE ErrNotFound

\* a Deposit for a locked client was rejected while the store holds an
\* accepted row; its id is free for the unlocked client and unknown to a
\* Dispute
C20_Witness ==
    /\ RejectedNewId
    /\ last.result = ErrLocked
    /\ tx_store # <<>>
    /\ \E c \in Clients :
           /\ ~IsLocked(client_store, c)
           /\ ResultOf([tag |-> "Deposit", amount |-> 1], c, last.tx.tx) = Ok
           /\ ResultOf([tag |-> "Dispute"], c, last.tx.tx) = ErrNotFound
    /\ ResultOf([tag |-> "Dispute"], last.tx.client, last.tx.tx) = ErrLocked

====
